---- MODULE Spec2Model ----
(***************************************************************************)
(* Post lifecycle and slot scheduling of the LinkedIn post manager.        *)
(*                                                                         *)
(* The store is the "posts" table.  Times are minutes counted from         *)
(* midnight of day 0 in the operator's local (naive) time; the code's      *)
(* candidates have second = 0 and microsecond = 0, so comparing a          *)
(* candidate with now at minute granularity is exact (now is floored).     *)
(***************************************************************************)
EXTENDS Integers, Sequences, FiniteSets, TLC

VARIABLES
    posts,      \* the posts table: id -> row
    clock,      \* datetime.now(), in minutes
    call,       \* per session: the schedule_post invocation in progress
    ui,         \* the outcome of the last button handler
    shadow,     \* the posts table of a second, independent deployment
    cache,      \* self._cache of the caching client: key -> (data, timestamp)
    time,       \* time.time(), in seconds
    reply,      \* what the caching client returned last
    hook,       \* what ModalClient._trigger_webhook returned last
    poll        \* the generate_image invocation in progress

vars == <<posts, clock, call, ui, shadow, cache, time, reply, hook, poll>>
\* the state the scheduling client and the button handlers never touch
otherVars == <<shadow, cache, time, reply, hook, poll>>

(***************************************************************************)
(* Bounds of the model                                                     *)
(***************************************************************************)
\* range(30) of schedule_post, scaled
LookaheadDays == 2

\* posts the operator acts on
PostIds == {1, 2}
\* posts already in the table that the operator leaves alone
BackgroundIds == {101, 102, 103}
AllIds == PostIds \cup BackgroundIds
Sessions == {"s1", "s2"}
\* the draws of random.randint(0, 59) the model explores
MinuteDraws == {15, 45}
\* the readings of the clock the model explores: 07:00, 08:15, 19:00 of day 0
ClockValues == {7 * 60, 8 * 60 + 15, 19 * 60}

(***************************************************************************)
(* Program constants                                                       *)
(***************************************************************************)
windows == << <<8, 10>>, <<12, 14>>, <<17, 19>> >>
SpacingSeconds == 1800
\* generate_image: the number of polls of a prediction
max_polls == 60
\* the caching clients: seconds a cached list is served
cache_ttl == 30
MinutesPerDay == 24 * 60

(***************************************************************************)
(* Stored timestamps.  A stored scheduled_time is null, an ISO string with *)
(* or without a UTC offset, or a string datetime.fromisoformat rejects.    *)
(***************************************************************************)
Null == [kind |-> "null", wall |-> 0, off |-> "naive"]
BadTime == [kind |-> "bad", wall |-> 0, off |-> "naive"]
Iso(t, off) == [kind |-> "iso", wall |-> t, off |-> off]

\* datetime.isoformat() of a naive datetime: no offset is written
isoformat(t) == Iso(t, "naive")

\* variant: a string that does not parse is read as the zero timestamp
ParseNaiveLenient(st) == IF st.kind \in {"iso", "bad"} THEN {st.wall} ELSE {}

\* datetime.fromisoformat(s.replace("Z", "+00:00")).replace(tzinfo=None):
\* the set holding the naive wall-clock value, empty when the parse raises.
\* The offset is dropped, not applied.
ParseNaive(st) == IF st.kind = "iso" THEN {st.wall} ELSE {}

\* Python truthiness of the stored field: None and "" are skipped
Truthy(st) == st.kind # "null"

DayStart(t) == (t \div MinutesPerDay) * MinutesPerDay
\* check_date.replace(hour=h, minute=m, second=0, microsecond=0)
ReplaceTime(dt, h, m) == DayStart(dt) + h * 60 + m
Abs(x) == IF x < 0 THEN -x ELSE x

(***************************************************************************)
(* The posts table                                                         *)
(***************************************************************************)
Row(st, sched) ==
    [exists |-> TRUE, status |-> st, scheduled_time |-> sched,
     title |-> "orig", image_url |-> ""]
NoRow ==
    [exists |-> FALSE, status |-> "", scheduled_time |-> Null,
     title |-> "", image_url |-> ""]

\* variant: the update carries no eq("id", id) filter and overwrites every row
TableUpdateUnfiltered(tbl, id, fields) ==
    [r \in DOMAIN tbl |->
        IF tbl[r].exists
        THEN [c \in DOMAIN tbl[r] |->
                IF c \in DOMAIN fields THEN fields[c] ELSE tbl[r][c]]
        ELSE tbl[r]]

\* table("posts").update(fields).eq("id", id).execute(): the columns named
\* in fields are overwritten on the matching row; no row, no change
TableUpdate(tbl, id, fields) ==
    IF tbl[id].exists
    THEN [tbl EXCEPT ![id] =
            [c \in DOMAIN tbl[id] |->
                IF c \in DOMAIN fields THEN fields[c] ELSE tbl[id][c]]]
    ELSE tbl

\* table("posts").delete().eq("id", id).execute()
TableDelete(tbl, id) == [tbl EXCEPT ![id] = NoRow]

\* get_all_posts(): the rows of the table, or [] when the query raises
get_all_posts(tbl, readOk) ==
    IF readOk THEN {id \in DOMAIN tbl : tbl[id].exists} ELSE {}

(***************************************************************************)
(* The state of the other clients before any of them has been used         *)
(***************************************************************************)
NoShadow == [i \in AllIds |-> NoRow]

\* the status_filter arguments the model explores; "None" is no filter
StatusFilters == {"None", "Pending Review"}
\* self._cache = {}
EmptyCache == [status_filter \in StatusFilters |-> {}]
\* op is the method called, ok whether it reported success, raised whether
\* it raised; for get_all_posts: hit tells that the cache was served, age is
\* the age of the served entry, fetch the outcome of the query, cached
\* whether the call stored an entry, data the list returned
NoReply ==
    [op |-> "none", ok |-> FALSE, raised |-> FALSE, status_filter |-> "None",
     hit |-> FALSE, age |-> 0, stale |-> FALSE, fetch |-> "none",
     cached |-> FALSE, data |-> {}]

\* what requests.post did: kind is "response", "timeout" (Timeout),
\* "request_exception" (another RequestException) or "exception"
NoOutcome == [kind |-> "none", status_code |-> 0, text |-> "empty"]
NoHook ==
    [endpoint |-> "none", record_id |-> 0, outcome |-> NoOutcome,
     returned |-> FALSE, raised |-> FALSE, success |-> FALSE,
     status_code |-> {}, data |-> "", error |-> {}, message |-> ""]

\* gets counts the GET requests of the call, last is what the last one
\* reported, returned holds the return value once the call has returned
IdlePoll ==
    [pc |-> "idle", poll_count |-> 0, gets |-> 0, last |-> "none",
     returned |-> {}, error |-> ""]

InitOther ==
    /\ shadow = NoShadow
    /\ cache = EmptyCache
    /\ time = 0
    /\ reply = NoReply
    /\ hook = NoHook
    /\ poll = IdlePoll

(***************************************************************************)
(* schedule_post                                                           *)
(***************************************************************************)
\* no button handler has run since the last schedule_post call
NoUi == [action |-> "none", record_id |-> 0, outcome |-> "none", before |-> NoRow]

IdleCall ==
    [pc |-> "idle", record_id |-> 0, scheduled_times |-> {}, now |-> 0,
     days_ahead |-> 0, w |-> 1, candidate_time |-> {},
     scheduled_datetime |-> {},
     draws |-> 0, updates |-> 0, payload |-> {}, readOk |-> TRUE,
     before |-> NoRow,
     result |-> [success |-> FALSE, scheduled_time |-> Null, error |-> ""]]

\* lines 145-156: the naive values of every truthy, parseable scheduled_time
CollectScheduledTimes(tbl, rows) ==
    UNION {ParseNaive(tbl[id].scheduled_time) :
              id \in {r \in rows : Truthy(tbl[r].scheduled_time)}}

\* variant: a time exactly 30 minutes away blocks the candidate as well
SlotAvailableInclusive(candidate_time, scheduled_times) ==
    \A existing_time \in scheduled_times :
        ~(Abs(candidate_time - existing_time) * 60 <= SpacingSeconds)

\* lines 189-194: no existing time within 30 minutes of the candidate
SlotAvailable(candidate_time, scheduled_times) ==
    \A existing_time \in scheduled_times :
        ~(Abs(candidate_time - existing_time) * 60 < SpacingSeconds)

\* variant: the end hour of the window is drawn as well
HourDrawsInclusive(w) == windows[w][1]..windows[w][2]

\* line 175: random.randint(start_hour, end_hour - 1), both ends included
HourDraws(w) == windows[w][1]..(windows[w][2] - 1)

\* variant: a candidate equal to now is kept
IsPastStrict(candidate_time, now) == candidate_time < now

\* variant: every candidate of the current day is skipped
IsPastToday(candidate_time, now) == DayStart(candidate_time) <= DayStart(now)

\* line 185: skip past times
IsPast(candidate_time, now) == candidate_time <= now

\* variant: a post that already has a scheduled_time is not scheduled again;
\* the call returns the stored time at once
BeginScheduleOnce(s, id, readOk) ==
    /\ call[s].pc \in {"idle", "done"}
    /\ ui' = NoUi
    /\ call' = [call EXCEPT ![s] =
          IF Truthy(posts[id].scheduled_time)
          THEN [IdleCall EXCEPT
                  !.pc = "done",
                  !.record_id = id,
                  !.now = clock,
                  !.readOk = readOk,
                  !.before = posts[id],
                  !.result = [success |-> TRUE,
                              scheduled_time |-> posts[id].scheduled_time,
                              error |-> ""]]
          ELSE [IdleCall EXCEPT
                  !.pc = "search",
                  !.record_id = id,
                  !.scheduled_times =
                      CollectScheduledTimes(posts, get_all_posts(posts, readOk)),
                  !.now = clock,
                  !.readOk = readOk,
                  !.before = posts[id]]]
    /\ UNCHANGED <<posts, clock>>
    /\ UNCHANGED otherVars

\* variant: the client remembers the time it handed out last and counts it as
\* occupied in its next call
StartCallRemembering(self, tbl, now, id, readOk) ==
    [IdleCall EXCEPT
        !.pc = "search",
        !.record_id = id,
        !.scheduled_times =
            CollectScheduledTimes(tbl, get_all_posts(tbl, readOk))
                \cup ParseNaive(self.result.scheduled_time),
        !.now = now,
        !.readOk = readOk,
        !.before = tbl[id]]

\* lines 143-166: the locals of a call at the head of the search.  self is
\* the client the method is called on: it holds the connection and nothing
\* of an earlier call, and the method reads none of it
StartCall(self, tbl, now, id, readOk) ==
    [IdleCall EXCEPT
        !.pc = "search",
        !.record_id = id,
        !.scheduled_times = CollectScheduledTimes(tbl, get_all_posts(tbl, readOk)),
        !.now = now,
        !.readOk = readOk,
        !.before = tbl[id]]

\* lines 143-166: read the table, collect the occupied times, read the clock
BeginSchedule(s, id, readOk) ==
    /\ call[s].pc \in {"idle", "done"}
    /\ ui' = NoUi
    /\ call' = [call EXCEPT ![s] = StartCall(call[s], posts, clock, id, readOk)]
    /\ UNCHANGED <<posts, clock>>
    /\ UNCHANGED otherVars

\* variant: the search gives up after the windows of the first day
NextPositionFirstDay(c) ==
    IF c.w < Len(windows)
    THEN [c EXCEPT !.w = c.w + 1]
    ELSE [c EXCEPT !.pc = "after"]

\* variant: after a rejected candidate the search leaves the day
NextPositionNextDay(c) ==
    IF c.days_ahead + 1 < LookaheadDays
    THEN [c EXCEPT !.days_ahead = c.days_ahead + 1, !.w = 1]
    ELSE [c EXCEPT !.pc = "after"]

\* variant: range(LookaheadDays + 1), one day more than the horizon
NextPositionOneMoreDay(c) ==
    IF c.w < Len(windows)
    THEN [c EXCEPT !.w = c.w + 1]
    ELSE IF c.days_ahead < LookaheadDays
         THEN [c EXCEPT !.days_ahead = c.days_ahead + 1, !.w = 1]
         ELSE [c EXCEPT !.pc = "after"]

\* the loop position after the body at (days_ahead, w) ends without a slot
NextPosition(c) ==
    IF c.w < Len(windows)
    THEN [c EXCEPT !.w = c.w + 1]
    ELSE IF c.days_ahead + 1 < LookaheadDays
         THEN [c EXCEPT !.days_ahead = c.days_ahead + 1, !.w = 1]
         ELSE [c EXCEPT !.pc = "after"]

\* variant: a candidate that is past costs no draw
TryWindowPastUndrawn(s) ==
    /\ call[s].pc = "search"
    /\ \E random_hour \in HourDraws(call[s].w), random_minute \in MinuteDraws :
        LET c == call[s]
            check_date == c.now + c.days_ahead * MinutesPerDay
            candidate_time == ReplaceTime(check_date, random_hour, random_minute)
            seen == [c EXCEPT !.candidate_time = {candidate_time}]
            drawn == [seen EXCEPT !.draws = c.draws + 2]
        IN  call' = [call EXCEPT ![s] =
                IF IsPast(candidate_time, c.now)
                THEN NextPosition(seen)
                ELSE IF SlotAvailable(candidate_time, c.scheduled_times)
                     THEN [drawn EXCEPT !.scheduled_datetime = {candidate_time},
                                        !.pc = "after"]
                     ELSE NextPosition(drawn)]
    /\ UNCHANGED <<posts, clock, ui>>
    /\ UNCHANGED otherVars

\* lines 173-201: the locals after one pass of the inner loop body that drew
\* random_hour and random_minute
LoopBody(c, random_hour, random_minute) ==
    LET check_date == c.now + c.days_ahead * MinutesPerDay
        candidate_time == ReplaceTime(check_date, random_hour, random_minute)
        drawn == [c EXCEPT !.draws = c.draws + 2,
                           !.candidate_time = {candidate_time}]
    IN  IF IsPast(candidate_time, c.now)
        THEN NextPosition(drawn)
        ELSE IF SlotAvailable(candidate_time, c.scheduled_times)
             THEN [drawn EXCEPT !.scheduled_datetime = {candidate_time},
                                !.pc = "after"]
             ELSE NextPosition(drawn)

\* lines 169-201: one pass of the inner loop body
TryWindow(s) ==
    /\ call[s].pc = "search"
    /\ \E random_hour \in HourDraws(call[s].w), random_minute \in MinuteDraws :
          call' = [call EXCEPT ![s] = LoopBody(call[s], random_hour, random_minute)]
    /\ UNCHANGED <<posts, clock, ui>>
    /\ UNCHANGED otherVars

\* the call has returned: its locals are gone; the returned dictionary stays
\* with the bookkeeping of the call (target, now, draws, updates, row before)
Returned(c, result) ==
    [c EXCEPT !.pc = "done", !.scheduled_times = {}, !.days_ahead = 0, !.w = 1,
              !.candidate_time = {}, !.scheduled_datetime = {},
              !.result = result]

\* line 206: the error of an exhausted search
NoSlotError == "No available time slots in next 30 days"

\* lines 203-207: the dictionary returned when nothing was found
NoSlotReturn(c) ==
    Returned(c, [success |-> FALSE, scheduled_time |-> Null,
                 error |-> NoSlotError])

\* lines 203-207: nothing found
NoSlot(s) ==
    /\ call[s].pc = "after"
    /\ call[s].scheduled_datetime = {}
    /\ call' = [call EXCEPT ![s] = NoSlotReturn(call[s])]
    /\ UNCHANGED <<posts, clock, ui>>
    /\ UNCHANGED otherVars

\* variant: the update carries the status alone
StatusOnlyFields(scheduled_datetime) == [status |-> "Approved"]

\* lines 210-214: the fields of the update (updated_at is not modelled)
UpdateFields(scheduled_datetime) ==
    [status |-> "Approved", scheduled_time |-> isoformat(scheduled_datetime)]

\* variant: a failed update is issued a second time, and that one goes through
CommitRetrying(s, writeOk) ==
    /\ call[s].pc = "after"
    /\ call[s].scheduled_datetime # {}
    /\ LET scheduled_datetime == CHOOSE x \in call[s].scheduled_datetime : TRUE
           fields == UpdateFields(scheduled_datetime)
           n == IF writeOk THEN 1 ELSE 2
           issued == [call[s] EXCEPT !.updates = call[s].updates + n,
                                     !.payload = {fields}]
       IN  /\ posts' = TableUpdate(posts, call[s].record_id, fields)
           /\ call' = [call EXCEPT ![s] =
                 Returned(issued,
                          [success |-> TRUE,
                           scheduled_time |-> isoformat(scheduled_datetime),
                           error |-> ""])]
    /\ UNCHANGED <<clock, ui>>
    /\ UNCHANGED otherVars

\* variant: the update is issued only if the candidate is still free in the
\* table as it is at the time of the write
CommitRechecking(s, writeOk) ==
    /\ call[s].pc = "after"
    /\ call[s].scheduled_datetime # {}
    /\ LET scheduled_datetime == CHOOSE x \in call[s].scheduled_datetime : TRUE
           fields == UpdateFields(scheduled_datetime)
           issued == [call[s] EXCEPT !.updates = call[s].updates + 1,
                                     !.payload = {fields}]
       IN  /\ SlotAvailable(scheduled_datetime,
                            CollectScheduledTimes(posts,
                                                  get_all_posts(posts, TRUE)))
           /\ writeOk
           /\ posts' = TableUpdate(posts, call[s].record_id, fields)
           /\ call' = [call EXCEPT ![s] =
                 Returned(issued,
                          [success |-> TRUE,
                           scheduled_time |-> isoformat(scheduled_datetime),
                           error |-> ""])]
    /\ UNCHANGED <<clock, ui>>
    /\ UNCHANGED otherVars

\* lines 209-214: the table after the update call, which may raise
CommitTable(tbl, c, writeOk) ==
    LET scheduled_datetime == CHOOSE x \in c.scheduled_datetime : TRUE
    IN  IF writeOk
        THEN TableUpdate(tbl, c.record_id, UpdateFields(scheduled_datetime))
        ELSE tbl

\* lines 216-225: the dictionary returned after the update call
CommitReturn(c, writeOk) ==
    LET scheduled_datetime == CHOOSE x \in c.scheduled_datetime : TRUE
        issued == [c EXCEPT !.updates = c.updates + 1,
                            !.payload = {UpdateFields(scheduled_datetime)}]
    IN  IF writeOk
        THEN Returned(issued,
                      [success |-> TRUE,
                       scheduled_time |-> isoformat(scheduled_datetime),
                       error |-> ""])
        ELSE Returned(issued,
                      [success |-> FALSE, scheduled_time |-> Null,
                       error |-> "exception"])

\* lines 209-225: the one update call, which may raise
Commit(s, writeOk) ==
    /\ call[s].pc = "after"
    /\ call[s].scheduled_datetime # {}
    /\ posts' = CommitTable(posts, call[s], writeOk)
    /\ call' = [call EXCEPT ![s] = CommitReturn(call[s], writeOk)]
    /\ UNCHANGED <<clock, ui>>
    /\ UNCHANGED otherVars

\* time passes between two requests
Tick ==
    /\ \A s \in Sessions : call[s].pc \in {"idle", "done"}
    /\ \E t \in ClockValues : t > clock /\ clock' = t
    /\ UNCHANGED <<posts, call, ui>>
    /\ UNCHANGED otherVars


(***************************************************************************)
(* Button handlers.  A handler runs to completion within one rerun of the  *)
(* page; a card is rendered only for a row the page fetched.               *)
(***************************************************************************)
NoCallRunning == \A s \in Sessions : call[s].pc \in {"idle", "done"}

\* what the handler reported: st.success (and rerun) or st.error
Handled(action, id, ok) ==
    [action |-> action, record_id |-> id,
     outcome |-> IF ok THEN "success" ELSE "error", before |-> posts[id]]

\* SupabaseClient.update_status: one update of the status column
update_status(tbl, id, new_status, writeOk) ==
    IF writeOk THEN TableUpdate(tbl, id, [status |-> new_status]) ELSE tbl

\* SupabaseClient.delete_post
delete_post(tbl, id, writeOk) ==
    IF writeOk THEN TableDelete(tbl, id) ELSE tbl

\* post_card.py 124-139: the approve button
Approve(id, writeOk) ==
    /\ NoCallRunning
    /\ posts[id].exists
    /\ posts' = update_status(posts, id, "Approved", writeOk)
    /\ ui' = Handled("approve", id, writeOk)
    /\ call' = [s \in Sessions |-> IdleCall]
    /\ UNCHANGED clock
    /\ UNCHANGED otherVars

\* post_card.py 140-155: the reject button
Reject(id, writeOk) ==
    /\ NoCallRunning
    /\ posts[id].exists
    /\ posts' = delete_post(posts, id, writeOk)
    /\ ui' = Handled("reject", id, writeOk)
    /\ call' = [s \in Sessions |-> IdleCall]
    /\ UNCHANGED clock
    /\ UNCHANGED otherVars

\* post_card.py 245-257: Save Changes on the card
SaveChanges(id, writeOk) ==
    /\ NoCallRunning
    /\ posts[id].exists
    /\ posts' = IF writeOk THEN TableUpdate(posts, id, [title |-> "edited"])
                           ELSE posts
    /\ ui' = Handled("save", id, writeOk)
    /\ call' = [s \in Sessions |-> IdleCall]
    /\ UNCHANGED clock
    /\ UNCHANGED otherVars

\* post_editor.py 213-225: Save Changes in the full-page editor
EditorSave(id, writeOk) ==
    /\ NoCallRunning
    /\ posts[id].exists
    /\ posts' = IF writeOk THEN TableUpdate(posts, id, [title |-> "edited"])
                           ELSE posts
    /\ ui' = Handled("editor_save", id, writeOk)
    /\ call' = [s \in Sessions |-> IdleCall]
    /\ UNCHANGED clock
    /\ UNCHANGED otherVars

\* post_editor.py 66-166: Generate Image, then save its URL
SaveImage(id, writeOk) ==
    /\ NoCallRunning
    /\ posts[id].exists
    /\ posts' = IF writeOk THEN TableUpdate(posts, id, [image_url |-> "url"])
                           ELSE posts
    /\ ui' = Handled("image", id, writeOk)
    /\ call' = [s \in Sessions |-> IdleCall]
    /\ UNCHANGED clock
    /\ UNCHANGED otherVars

\* app.py 218-244: the approve button of the first app, shown for Draft posts
LegacyApprove(id, writeOk) ==
    /\ NoCallRunning
    /\ posts[id].exists
    /\ posts[id].status = "Draft"
    /\ posts' = update_status(posts, id, "Approved - Ready to Schedule", writeOk)
    /\ ui' = Handled("legacy_approve", id, writeOk)
    /\ call' = [s \in Sessions |-> IdleCall]
    /\ UNCHANGED clock
    /\ UNCHANGED otherVars

\* app.py 223-260: the reject button of the first app, shown for Draft and
\* Pending Review posts
LegacyReject(id, writeOk) ==
    /\ NoCallRunning
    /\ posts[id].exists
    /\ posts[id].status \in {"Draft", "Pending Review"}
    /\ posts' = update_status(posts, id, "Rejected", writeOk)
    /\ ui' = Handled("legacy_reject", id, writeOk)
    /\ call' = [s \in Sessions |-> IdleCall]
    /\ UNCHANGED clock
    /\ UNCHANGED otherVars

\* direct_processors.py 221-293: generate an image and store its URL
generate_image_from_post(id, writeOk) ==
    /\ NoCallRunning
    /\ posts[id].exists
    /\ posts' = IF writeOk
                THEN TableUpdate(posts, id,
                        [image_url |-> "url", status |-> "Pending Review"])
                ELSE posts
    /\ ui' = Handled("legacy_image", id, writeOk)
    /\ call' = [s \in Sessions |-> IdleCall]
    /\ UNCHANGED clock
    /\ UNCHANGED otherVars

(***************************************************************************)
(* Initial states                                                          *)
(***************************************************************************)
\* the rows the table already holds: none; a slot today at 08:20 and a
\* rejected post that kept its 12:44; two slots tomorrow, at 08:20 and 12:44;
\* one instant written with two offsets (08:20+00:00 and 09:20+01:00) next to
\* a scheduled_time that is not an ISO string
BackgroundStores ==
    { [i \in BackgroundIds |-> NoRow],
      (101 :> Row("Approved", Iso(8 * 60 + 20, "+00:00")) @@
       102 :> Row("Rejected", Iso(12 * 60 + 44, "naive")) @@
       103 :> NoRow),
      (101 :> Row("Approved", Iso(MinutesPerDay + 8 * 60 + 20, "Z")) @@
       102 :> Row("Approved", Iso(MinutesPerDay + 12 * 60 + 44, "naive")) @@
       103 :> NoRow),
      (101 :> Row("Approved", Iso(8 * 60 + 20, "+00:00")) @@
       102 :> Row("Approved", Iso(9 * 60 + 20, "+01:00")) @@
       103 :> Row("Approved", BadTime)) }

InitSched ==
    /\ \E bg \in BackgroundStores :
          posts = [i \in AllIds |->
                      IF i \in PostIds THEN Row("Pending Review", Null) ELSE bg[i]]
    /\ clock \in ClockValues
    /\ call = [s \in Sessions |-> IdleCall]
    /\ ui = NoUi
    /\ InitOther

SchedNext ==
    \/ \E id \in PostIds, readOk \in BOOLEAN : BeginSchedule("s1", id, readOk)
    \/ TryWindow("s1")
    \/ NoSlot("s1")
    \/ \E writeOk \in BOOLEAN : Commit("s1", writeOk)
    \/ Tick

SchedSpec == InitSched /\ [][SchedNext]_vars

\* the lifecycle of one post under every operation of the two apps
InitLife ==
    /\ \E st \in {"Draft", "Pending Review"}, bg \in BackgroundStores :
          posts = [i \in AllIds |->
                      IF i = 1 THEN Row(st, Null)
                      ELSE IF i \in BackgroundIds THEN bg[i] ELSE NoRow]
    /\ clock \in ClockValues
    /\ call = [s \in Sessions |-> IdleCall]
    /\ ui = NoUi
    /\ InitOther

Next ==
    \/ \E id \in PostIds, readOk \in BOOLEAN : BeginSchedule("s1", id, readOk)
    \/ TryWindow("s1")
    \/ NoSlot("s1")
    \/ \E writeOk \in BOOLEAN : Commit("s1", writeOk)
    \/ \E id \in PostIds, writeOk \in BOOLEAN :
          \/ Approve(id, writeOk)
          \/ Reject(id, writeOk)
          \/ SaveChanges(id, writeOk)
          \/ EditorSave(id, writeOk)
          \/ SaveImage(id, writeOk)
          \/ LegacyApprove(id, writeOk)
          \/ LegacyReject(id, writeOk)
          \/ generate_image_from_post(id, writeOk)

Spec == InitLife /\ [][Next]_vars

(***************************************************************************)
(* Vocabulary of the claims                                                *)
(***************************************************************************)
\* a post holds a slot: Approved with a readable scheduled_time
HoldsSlot(row) ==
    /\ row.exists
    /\ row.status \in {"Approved", "Scheduled"}
    /\ row.scheduled_time.kind = "iso"
OccupiedTimes(tbl) ==
    {tbl[id].scheduled_time.wall : id \in {i \in DOMAIN tbl : HoldsSlot(tbl[i])}}
SpacingHolds(tbl) ==
    \A a, b \in OccupiedTimes(tbl) :
        a # b => Abs(a - b) * 60 >= SpacingSeconds

HourOf(t) == (t % MinutesPerDay) \div 60
MinuteOf(t) == t % 60
InWindow(t) ==
    \E w \in 1..Len(windows) : HourOf(t) \in windows[w][1]..(windows[w][2] - 1)

Succeeded(c) == c.pc = "done" /\ c.result.success
\* every (day, window) pair of the horizon costs two draws
FullSearchDraws == 2 * LookaheadDays * Len(windows)

(***************************************************************************)
(* C1. Spacing invariant: from a store whose distinct occupied             *)
(* scheduled_time values are at least 30 minutes apart, after any sequence *)
(* of single-threaded schedule_post calls every two distinct occupied      *)
(* values are still at least 30 minutes apart.                             *)
(* Violated: when the posts query raises, get_all_posts returns [] and     *)
(* schedule_post searches against no occupied time at all.                 *)
(***************************************************************************)
C1_SpacingInvariant == SpacingHolds(posts)

(***************************************************************************)
(* C2. Window containment: the timestamp of every successful schedule call *)
(* has its hour in [s, e-1] of a configured window and its minute in       *)
(* [0, 59]; no update payload and no accepted candidate lies outside the   *)
(* windows.                                                                *)
(***************************************************************************)
C2_WindowContainment ==
    \A s \in Sessions :
        /\ Succeeded(call[s]) =>
              /\ call[s].result.scheduled_time.kind = "iso"
              /\ InWindow(call[s].result.scheduled_time.wall)
              /\ MinuteOf(call[s].result.scheduled_time.wall) \in 0..59
        /\ \A f \in call[s].payload :
              f.scheduled_time.kind = "iso" /\ InWindow(f.scheduled_time.wall)
        /\ \A t \in call[s].scheduled_datetime : InWindow(t)

\* a call succeeded in the last hour of a window
C2_Witness ==
    \E s \in Sessions :
        /\ Succeeded(call[s])
        /\ HourOf(call[s].result.scheduled_time.wall) = windows[3][2] - 1
        /\ posts[call[s].record_id].scheduled_time = call[s].result.scheduled_time

(***************************************************************************)
(* C3. Future-only: the timestamp chosen by a successful schedule call is  *)
(* strictly greater than the now that call read; a candidate equal to now  *)
(* or earlier is never accepted or written.                                *)
(***************************************************************************)
C3_FutureOnly ==
    \A s \in Sessions :
        /\ Succeeded(call[s]) => call[s].result.scheduled_time.wall > call[s].now
        /\ \A f \in call[s].payload : f.scheduled_time.wall > call[s].now
        /\ \A t \in call[s].scheduled_datetime : t > call[s].now

\* every window of today had passed (now = 19:00) and the call chose tomorrow
C3_Witness ==
    \E s \in Sessions :
        /\ Succeeded(call[s])
        /\ call[s].now = 19 * 60
        /\ call[s].result.scheduled_time.wall >= MinutesPerDay
        /\ call[s].draws > 2 * Len(windows)

(***************************************************************************)
(* C4. Exhaustion: when every candidate of the whole horizon is rejected,  *)
(* schedule reports "no available slot", issues no update, runs the search *)
(* once only, and the target row is what it was before the call.           *)
(***************************************************************************)
C4_Exhaustion ==
    \A s \in Sessions :
        /\ (call[s].pc = "after" /\ call[s].scheduled_datetime = {}) =>
              /\ call[s].draws = FullSearchDraws
              /\ call[s].updates = 0
              /\ posts[call[s].record_id] = call[s].before
        /\ (call[s].pc = "done" /\ call[s].result.error = NoSlotError) =>
              /\ ~call[s].result.success
              /\ call[s].result.scheduled_time = Null
              /\ call[s].draws = FullSearchDraws
              /\ call[s].updates = 0
              /\ call[s].payload = {}
              /\ posts[call[s].record_id] = call[s].before
        /\ (call[s].pc = "done" /\ call[s].updates = 0) =>
              call[s].result.error = NoSlotError

\* a call on a post that held a slot ran out of candidates
C4_Witness ==
    \E s \in Sessions :
        /\ call[s].pc = "done"
        /\ call[s].result.error = NoSlotError
        /\ call[s].before.scheduled_time # Null
        /\ call[s].readOk

(***************************************************************************)
(* C5. Atomic commit: a successful schedule call issues exactly one        *)
(* update, whose payload sets status = Approved and scheduled_time = the   *)
(* chosen timestamp, the value returned; the target row is either as it    *)
(* was before the call or has both fields set, never only one.             *)
(***************************************************************************)
C5_AtomicCommit ==
    \A s \in Sessions :
        /\ Succeeded(call[s]) =>
              /\ call[s].updates = 1
              /\ call[s].payload =
                    {[status |-> "Approved",
                      scheduled_time |-> call[s].result.scheduled_time]}
              /\ call[s].before.exists =>
                    posts[call[s].record_id] =
                        [call[s].before EXCEPT
                            !.status = "Approved",
                            !.scheduled_time = call[s].result.scheduled_time]
        /\ call[s].pc \in {"search", "after"} =>
              /\ call[s].updates = 0
              /\ posts[call[s].record_id] = call[s].before
        /\ (call[s].pc = "done" /\ ~call[s].result.success) =>
              posts[call[s].record_id] = call[s].before

\* a Pending Review post was scheduled: both fields changed in the one step
C5_Witness ==
    \E s \in Sessions :
        /\ Succeeded(call[s])
        /\ call[s].before.exists
        /\ call[s].before.status = "Pending Review"
        /\ call[s].before.scheduled_time = Null
        /\ posts[call[s].record_id].status = "Approved"
        /\ posts[call[s].record_id].scheduled_time # Null

(***************************************************************************)
(* C6. Invalid transitions are rejected: approve and reject on a post      *)
(* whose status is Rejected fail (InvalidTransition) and leave the row as  *)
(* it was.                                                                 *)
(* Violated: the card's approve and reject handlers test no status; they   *)
(* call update_status / delete_post on whatever row is shown.              *)
(***************************************************************************)
C6_InvalidTransitionRejected ==
    (/\ ui.action \in {"approve", "reject"}
     /\ ui.before.exists
     /\ ui.before.status = "Rejected")
        => /\ ui.outcome # "success"
           /\ posts[ui.record_id] = ui.before

(***************************************************************************)
(* C7. Rejected is terminal: no step of the system takes a post whose      *)
(* status is Rejected to a row with any other status.                      *)
(* Violated: approve, schedule_post and generate_image_from_post write a   *)
(* status without reading the current one.                                 *)
(***************************************************************************)
C7_RejectedTerminal ==
    [][\A id \in AllIds :
          (/\ posts[id].exists
           /\ posts[id].status = "Rejected"
           /\ posts'[id].exists) => posts'[id].status = "Rejected"]_vars

(***************************************************************************)
(* C8. Approve triggers scheduling: when approve on a Pending Review post  *)
(* completes successfully, the post is Approved and has a non-null         *)
(* scheduled_time.                                                         *)
(* Violated: approve only calls update_status; schedule_post has no        *)
(* caller.                                                                 *)
(***************************************************************************)
C8_ApproveSchedules ==
    (/\ ui.action = "approve"
     /\ ui.outcome = "success"
     /\ ui.before.status = "Pending Review")
        => /\ posts[ui.record_id].status = "Approved"
           /\ posts[ui.record_id].scheduled_time # Null

(***************************************************************************)
(* C9. Reject sets Rejected with a retention deadline: after a successful  *)
(* reject of a Pending Review or Approved post the post still exists and   *)
(* its status is Rejected (and a deadline of now + 7 days is recorded).    *)
(* Violated: reject calls delete_post; the row is gone and no deadline is  *)
(* stored anywhere.                                                        *)
(***************************************************************************)
C9_RejectKeepsRejectedPost ==
    (/\ ui.action = "reject"
     /\ ui.outcome = "success"
     /\ ui.before.status \in {"Pending Review", "Approved"})
        => /\ posts[ui.record_id].exists
           /\ posts[ui.record_id].status = "Rejected"

(***************************************************************************)
(* C10. Reject keeps the audit trail: after a successful reject of an      *)
(* Approved post that has a scheduled_time, the post is still stored and   *)
(* its scheduled_time is the value it had.                                 *)
(* Violated: delete_post removes the row together with its scheduled_time. *)
(***************************************************************************)
C10_RejectKeepsScheduledTime ==
    (/\ ui.action = "reject"
     /\ ui.outcome = "success"
     /\ ui.before.status = "Approved"
     /\ ui.before.scheduled_time # Null)
        => /\ posts[ui.record_id].exists
           /\ posts[ui.record_id].scheduled_time = ui.before.scheduled_time

(***************************************************************************)
(* C11. Occupancy set: the timestamps schedule_post treats as occupied are *)
(* exactly the scheduled_time values of the Approved posts that have one;  *)
(* the scheduled_time of a post in another status blocks no candidate.     *)
(* (Stated for calls whose read succeeded.)                                *)
(* Violated: lines 145-156 collect the scheduled_time of every post; the   *)
(* status is never read.                                                   *)
(***************************************************************************)
ApprovedSlotTimes(tbl) ==
    {tbl[id].scheduled_time.wall :
        id \in {i \in DOMAIN tbl : /\ tbl[i].exists
                                   /\ tbl[i].status = "Approved"
                                   /\ tbl[i].scheduled_time.kind = "iso"}}

C11_OccupancySet ==
    \A s \in Sessions :
        (call[s].pc \in {"search", "after"} /\ call[s].readOk)
            => call[s].scheduled_times = ApprovedSlotTimes(posts)

(***************************************************************************)
(* C12. No degraded success: when the read of the posts fails during       *)
(* schedule_post, the call reports an error and writes nothing; it never   *)
(* searches as if no timestamp were occupied and never reports success.    *)
(* Violated: get_all_posts returns [] on any exception and schedule_post   *)
(* goes on with an empty scheduled_times.                                  *)
(***************************************************************************)
C12_NoDegradedSuccess ==
    \A s \in Sessions :
        ~call[s].readOk =>
            /\ call[s].pc \notin {"search", "after"}
            /\ call[s].pc = "done" =>
                  /\ ~call[s].result.success
                  /\ call[s].updates = 0
                  /\ posts[call[s].record_id] = call[s].before

(***************************************************************************)
(* C13. Repository write failure: when the update of schedule_post fails,  *)
(* the caller gets an error and never success, no second update is issued, *)
(* the search is not run again, and the post keeps the status and          *)
(* scheduled_time it had.                                                  *)
(***************************************************************************)
WriteFailed(c) == c.pc = "done" /\ c.updates > 0 /\ ~c.result.success

C13_WriteFailure ==
    \A s \in Sessions :
        /\ WriteFailed(call[s]) =>
              /\ call[s].result.error \notin {"", NoSlotError}
              /\ call[s].result.scheduled_time = Null
              /\ call[s].updates = 1
              /\ call[s].draws <= FullSearchDraws
              /\ posts[call[s].record_id] = call[s].before
        /\ call[s].updates <= 1
        /\ (call[s].pc = "done" /\ call[s].updates = 1 /\ call[s].before.exists
              /\ posts[call[s].record_id] # call[s].before)
                 => call[s].result.success

\* the update of a call on a Pending Review post raised
C13_Witness ==
    \E s \in Sessions :
        /\ WriteFailed(call[s])
        /\ call[s].readOk
        /\ call[s].before.status = "Pending Review"
        /\ posts[call[s].record_id].status = "Pending Review"
        /\ posts[call[s].record_id].scheduled_time = Null

(***************************************************************************)
(* Two sessions, each running one schedule_post call on its own post; the  *)
(* steps of the two calls interleave freely and every read succeeds.       *)
(***************************************************************************)
RacePost == [s \in Sessions |-> IF s = "s1" THEN 1 ELSE 2]

InitRace ==
    /\ \E bg \in BackgroundStores :
          posts = [i \in AllIds |->
                     IF i \in PostIds THEN Row("Pending Review", Null) ELSE bg[i]]
    /\ clock \in ClockValues
    /\ call = [s \in Sessions |-> IdleCall]
    /\ ui = NoUi
    /\ InitOther

RaceNext ==
    \E s \in Sessions :
        \/ call[s].pc = "idle" /\ BeginSchedule(s, RacePost[s], TRUE)
        \/ TryWindow(s)
        \/ NoSlot(s)
        \/ \E writeOk \in BOOLEAN : Commit(s, writeOk)

RaceSpec == InitRace /\ [][RaceNext]_vars

(***************************************************************************)
(* C14. Accepted race: when two schedule_post calls for two different      *)
(* posts both read the occupied set before either writes, both posts can   *)
(* end Approved with scheduled_time values less than 30 minutes apart.     *)
(* Nothing in schedule_post prevents it: a call that holds an accepted     *)
(* candidate can always issue its update, whatever the table holds by      *)
(* then, and the update writes that candidate.                             *)
(***************************************************************************)
C14_WriteNeverRechecks ==
    \A s \in Sessions :
        (call[s].pc = "after" /\ call[s].scheduled_datetime # {})
            => /\ ENABLED Commit(s, TRUE)
               /\ call[s].scheduled_datetime = call[s].candidate_time
               /\ SlotAvailable(CHOOSE t \in call[s].scheduled_datetime : TRUE,
                                call[s].scheduled_times)

\* both calls read before either wrote, and both posts ended Approved too close
C14_Witness ==
    /\ \A s \in Sessions : Succeeded(call[s]) /\ call[s].readOk
    /\ \A id \in PostIds : HoldsSlot(posts[id])
    /\ Abs(posts[1].scheduled_time.wall - posts[2].scheduled_time.wall) * 60
          < SpacingSeconds
    /\ \A s \in Sessions : call[s].before.status = "Pending Review"

(***************************************************************************)
(* C15. schedule_post is not idempotent and does not deduplicate: a call   *)
(* on a post that already holds a scheduled_time is not refused or turned  *)
(* into a no-op; it runs a fresh search and, on success, overwrites the    *)
(* stored scheduled_time with the newly chosen one.                        *)
(***************************************************************************)
C15_NotIdempotent ==
    \A s \in Sessions :
        (call[s].pc = "done" /\ Truthy(call[s].before.scheduled_time)) =>
            /\ call[s].draws >= 2
            /\ Succeeded(call[s]) =>
                  /\ call[s].updates = 1
                  /\ posts[call[s].record_id].status = "Approved"
                  /\ posts[call[s].record_id].scheduled_time =
                        call[s].result.scheduled_time

\* a post that was Approved with a time was scheduled again and got another
C15_Witness ==
    \E s \in Sessions :
        /\ Succeeded(call[s])
        /\ call[s].before.status = "Approved"
        /\ Truthy(call[s].before.scheduled_time)
        /\ posts[call[s].record_id].scheduled_time # call[s].before.scheduled_time

(***************************************************************************)
(* C16. Status changes only through the state machine: saving an edit of   *)
(* title or content and generating or saving an image leave the status    *)
(* and the scheduled_time of the post as they were.                        *)
(* Violated: generate_image_from_post writes Status = Pending Review       *)
(* together with the image URL, whatever the status was.                   *)
(***************************************************************************)
C16_EditsKeepStatus ==
    (/\ ui.action \in {"save", "editor_save", "image", "legacy_image"}
     /\ ui.before.exists)
        => /\ posts[ui.record_id].status = ui.before.status
           /\ posts[ui.record_id].scheduled_time = ui.before.scheduled_time

(***************************************************************************)
(* The (day, window) pairs in the order of the two nested loops, counted   *)
(* from 0: the pair the call is at, and the pair a timestamp was drawn for *)
(***************************************************************************)
PairIndex(c) == c.days_ahead * Len(windows) + (c.w - 1)
WindowOf(t) ==
    CHOOSE w \in 1..Len(windows) : HourOf(t) \in windows[w][1]..(windows[w][2] - 1)
DayOffset(t, now) == (DayStart(t) - DayStart(now)) \div MinutesPerDay
CandidateIndex(t, now) == DayOffset(t, now) * Len(windows) + (WindowOf(t) - 1)
CandidateRejected(t, c) == IsPast(t, c.now) \/ ~SlotAvailable(t, c.scheduled_times)

(***************************************************************************)
(* C17. Search order, one draw per window, first accepted wins: the pairs  *)
(* are visited day by day and, within a day, window by window; each        *)
(* visited pair gets exactly one candidate; the result is the candidate of *)
(* the first pair whose candidate passes both tests and no later pair is   *)
(* visited; a candidate that collides with the occupied set the call      *)
(* collected is never returned and its window is not drawn again.          *)
(***************************************************************************)
C17_SearchOrder ==
    \A s \in Sessions :
        /\ call[s].pc = "search" =>
              /\ call[s].scheduled_datetime = {}
              /\ call[s].draws = 2 * PairIndex(call[s])
              /\ \A t \in call[s].candidate_time :
                    /\ CandidateIndex(t, call[s].now) = PairIndex(call[s]) - 1
                    /\ CandidateRejected(t, call[s])
        /\ (call[s].pc = "after" /\ call[s].scheduled_datetime # {}) =>
              /\ call[s].scheduled_datetime = call[s].candidate_time
              /\ call[s].draws = 2 * (PairIndex(call[s]) + 1)
              /\ \A t \in call[s].scheduled_datetime :
                    /\ CandidateIndex(t, call[s].now) = PairIndex(call[s])
                    /\ ~CandidateRejected(t, call[s])
        /\ (call[s].pc = "after" /\ call[s].scheduled_datetime = {}) =>
              \A t \in call[s].candidate_time : CandidateRejected(t, call[s])
        /\ Succeeded(call[s]) =>
              call[s].draws =
                  2 * (CandidateIndex(call[s].result.scheduled_time.wall,
                                      call[s].now) + 1)

\* 08:20 is occupied and now is 07:00: the candidate of the first window
\* collided, and a candidate of a later window of the same day was accepted
C17_Witness ==
    \E s \in Sessions :
        /\ call[s].pc = "after"
        /\ call[s].now = 7 * 60
        /\ (8 * 60 + 20) \in call[s].scheduled_times
        /\ call[s].days_ahead = 0
        /\ call[s].w > 1
        /\ call[s].scheduled_datetime # {}

(***************************************************************************)
(* C18. Spacing check boundary and symmetry: a candidate that is not past  *)
(* is rejected iff some timestamp of the occupied set the call collected   *)
(* is less than 30 minutes from it, before or after; exactly 30 minutes    *)
(* away it is accepted, 29 minutes away it is rejected.                    *)
(***************************************************************************)
MinutesApart(a, b) == IF a < b THEN b - a ELSE a - b

C18_SpacingBoundary ==
    \A s \in Sessions :
        call[s].pc \in {"search", "after"} =>
            \A t \in call[s].candidate_time :
                ~IsPast(t, call[s].now) =>
                    /\ (call[s].scheduled_datetime = {t})
                          <=> (\A x \in call[s].scheduled_times :
                                  MinutesApart(t, x) * 60 >= SpacingSeconds)
                    /\ (\E x \in call[s].scheduled_times :
                            MinutesApart(t, x) = 29)
                          => call[s].scheduled_datetime = {}
                    /\ (\A x \in call[s].scheduled_times :
                            x <= t => t - x >= 30)
                       /\ (\A x \in call[s].scheduled_times :
                            x > t => x - t >= 30)
                          => call[s].scheduled_datetime = {t}

\* a candidate was accepted with one occupied time exactly 30 minutes before
\* it and another exactly 30 minutes after it
C18_Witness ==
    \E s \in Sessions :
        /\ call[s].pc = "after"
        /\ \E t \in call[s].scheduled_datetime :
              /\ (t - 30) \in call[s].scheduled_times
              /\ (t + 30) \in call[s].scheduled_times

(***************************************************************************)
(* C19. Draw consumption: every visited (day, window) pair consumes two    *)
(* draws, the hour in [start_hour, end_hour - 1] and the minute in         *)
(* [0, 59], before either test, so a pair whose window is past consumes    *)
(* its two draws as well; the candidate is that hour and minute on the     *)
(* date today + day.                                                       *)
(***************************************************************************)
PairsVisited(c) ==
    IF c.candidate_time = {}
    THEN 0
    ELSE CandidateIndex(CHOOSE t \in c.candidate_time : TRUE, c.now) + 1

C19_DrawConsumption ==
    \A s \in Sessions :
        call[s].pc \in {"search", "after"} =>
            /\ Cardinality(call[s].candidate_time) <= 1
            /\ \A t \in call[s].candidate_time :
                  /\ InWindow(t)
                  /\ MinuteOf(t) \in 0..59
                  /\ DayOffset(t, call[s].now) \in 0..(LookaheadDays - 1)
                  /\ ReplaceTime(call[s].now + DayOffset(t, call[s].now)
                                                  * MinutesPerDay,
                                 HourOf(t), MinuteOf(t)) = t
            /\ call[s].draws = 2 * PairsVisited(call[s])

\* now is 19:00: the three windows of today were past, each cost two draws
C19_Witness ==
    \E s \in Sessions :
        /\ call[s].pc = "search"
        /\ call[s].now = 19 * 60
        /\ call[s].days_ahead = 1
        /\ call[s].w = 1
        /\ call[s].draws = 2 * Len(windows)
        /\ \E t \in call[s].candidate_time : IsPast(t, call[s].now)

(***************************************************************************)
(* One session calling schedule_post on post 1 again and again.  The call  *)
(* is a sequential function: once started, its next step is always taken   *)
(* (weak fairness of the loop body, of the return and of the update).      *)
(***************************************************************************)
TermNext ==
    \/ \E readOk \in BOOLEAN : BeginSchedule("s1", 1, readOk)
    \/ TryWindow("s1")
    \/ NoSlot("s1")
    \/ \E writeOk \in BOOLEAN : Commit("s1", writeOk)

TermSpec ==
    /\ InitSched
    /\ [][TermNext]_vars
    /\ WF_vars(TryWindow("s1"))
    /\ WF_vars(NoSlot("s1"))
    /\ WF_vars(\E writeOk \in BOOLEAN : Commit("s1", writeOk))

(***************************************************************************)
(* C20. Bounded lookahead and termination: every schedule_post call        *)
(* returns, after evaluating at most LookaheadDays x Len(windows)          *)
(* candidates, and every timestamp it chooses lies on a date from today    *)
(* to today + LookaheadDays - 1.                                           *)
(***************************************************************************)
C20_BoundedTermination ==
    /\ [](\A s \in Sessions :
             /\ call[s].draws <= 2 * LookaheadDays * Len(windows)
             /\ \A t \in call[s].candidate_time \cup call[s].scheduled_datetime :
                   DayOffset(t, call[s].now) \in 0..(LookaheadDays - 1)
             /\ Succeeded(call[s]) =>
                   DayOffset(call[s].result.scheduled_time.wall, call[s].now)
                       \in 0..(LookaheadDays - 1))
    /\ (call["s1"].pc \in {"search", "after"}) ~> (call["s1"].pc = "done")

\* a call went through the whole horizon and chose a time on its last day
C20_Witness ==
    /\ Succeeded(call["s1"])
    /\ DayOffset(call["s1"].result.scheduled_time.wall, call["s1"].now)
          = LookaheadDays - 1
    /\ call["s1"].draws > 2 * (LookaheadDays - 1) * Len(windows)

(***************************************************************************)
(* What a stored timestamp denotes: the instant of a value written with an *)
(* offset (or Z) is its wall-clock reading minus the offset.               *)
(***************************************************************************)
OffsetMinutes(off) == IF off = "+01:00" THEN 60 ELSE 0
Aware(st) == st.kind = "iso" /\ st.off # "naive"
UtcInstant(st) == st.wall - OffsetMinutes(st.off)
StoredRows(tbl) == {id \in DOMAIN tbl : tbl[id].exists}

(***************************************************************************)
(* C23. Timezone stripping: every stored scheduled_time, with an offset,   *)
(* with Z or with none, is reduced to one naive local value before the     *)
(* comparison; two stored values that denote the same instant with         *)
(* different offsets are treated as the same occupied time.                *)
(* Violated: replace(tzinfo=None) drops the offset without applying it, so *)
(* 08:20+00:00 and 09:20+01:00 become the two occupied times 08:20, 09:20. *)
(***************************************************************************)
C23_TimezoneStripping ==
    \A s \in Sessions :
        (call[s].pc \in {"search", "after"} /\ call[s].readOk) =>
            \A a, b \in StoredRows(posts) :
                (/\ Aware(posts[a].scheduled_time)
                 /\ Aware(posts[b].scheduled_time)
                 /\ UtcInstant(posts[a].scheduled_time)
                       = UtcInstant(posts[b].scheduled_time))
                    => /\ ParseNaive(posts[a].scheduled_time)
                             = ParseNaive(posts[b].scheduled_time)
                       /\ ParseNaive(posts[a].scheduled_time)
                             \subseteq call[s].scheduled_times

(***************************************************************************)
(* C30. Unreadable occupied timestamps are skipped: a stored               *)
(* scheduled_time that does not parse as an ISO timestamp neither fails    *)
(* the call nor counts as occupied; the search goes on with the            *)
(* timestamps that do parse.                                               *)
(***************************************************************************)
ReadableTimes(tbl) ==
    {tbl[id].scheduled_time.wall :
        id \in {i \in StoredRows(tbl) : tbl[i].scheduled_time.kind = "iso"}}
HasUnreadable(tbl) ==
    \E id \in StoredRows(tbl) : tbl[id].scheduled_time.kind = "bad"

C30_UnreadableSkipped ==
    \A s \in Sessions :
        /\ (call[s].pc \in {"search", "after"} /\ call[s].readOk) =>
              call[s].scheduled_times = ReadableTimes(posts)
        /\ (call[s].pc = "done" /\ call[s].updates = 0 /\ HasUnreadable(posts)) =>
              call[s].result.error = NoSlotError /\ call[s].draws = FullSearchDraws

\* with an unreadable scheduled_time in the table the call accepted a slot
C30_Witness ==
    \E s \in Sessions :
        /\ call[s].pc = "after"
        /\ call[s].readOk
        /\ HasUnreadable(posts)
        /\ call[s].scheduled_datetime # {}
        /\ call[s].scheduled_times # {}

(***************************************************************************)
(* C28. The post's own previous slot counts as occupied: when              *)
(* schedule_post is called on a post that already has a scheduled_time,    *)
(* the old value is part of the occupied set used by the search, so the    *)
(* newly chosen time is at least 30 minutes from the previous one.         *)
(* Violated: when the posts query raises, get_all_posts returns [] and the *)
(* post's own slot is not in the occupied set either; the call may write   *)
(* the very time the post already had.  With a successful read the         *)
(* property holds.                                                         *)
(***************************************************************************)
HadSlot(c) == c.before.exists /\ c.before.scheduled_time.kind = "iso"

C28_OwnSlotOccupied ==
    \A s \in Sessions :
        HadSlot(call[s]) =>
            /\ call[s].pc \in {"search", "after"} =>
                  call[s].before.scheduled_time.wall \in call[s].scheduled_times
            /\ Succeeded(call[s]) =>
                  Abs(call[s].result.scheduled_time.wall
                        - call[s].before.scheduled_time.wall) * 60
                      >= SpacingSeconds

(***************************************************************************)
(* C29. Frame of schedule_post: a call changes no post other than the one  *)
(* named by post_id; on success it changes only that post's status and     *)
(* scheduled_time (and updated_at); on failure it changes nothing; it      *)
(* never creates or deletes a post.                                        *)
(***************************************************************************)
C29_Frame ==
    [][\A id \in AllIds :
          posts'[id] # posts[id] =>
              \E s \in Sessions :
                  /\ call[s].pc = "after"
                  /\ call[s].record_id = id
                  /\ Succeeded(call'[s])
                  /\ posts[id].exists
                  /\ posts'[id] =
                        [posts[id] EXCEPT
                            !.status = "Approved",
                            !.scheduled_time = call'[s].result.scheduled_time]]_vars

\* a successful call rewrote its own post while other posts held times
C29_Witness ==
    \E s \in Sessions :
        /\ Succeeded(call[s])
        /\ call[s].before.status # "Approved"
        /\ posts[call[s].record_id] =
              [call[s].before EXCEPT
                  !.status = "Approved",
                  !.scheduled_time = call[s].result.scheduled_time]
        /\ \E other \in StoredRows(posts) \ {call[s].record_id} :
              /\ posts[other].scheduled_time.kind = "iso"
              /\ posts[other].scheduled_time # call[s].result.scheduled_time
              /\ posts[other].status # "Approved"

(***************************************************************************)
(* C27. Success implies the slot is held: whenever schedule_post reports   *)
(* success with time t, the table holds a post with that id whose status   *)
(* is Approved and whose scheduled_time is t; no success is reported for   *)
(* an id that matches no post.                                             *)
(* Violated: the update filtered by eq("id", record_id) matches no row     *)
(* when the post was deleted by a reject, raises nothing, and line 216     *)
(* returns success without looking at the response.                        *)
(***************************************************************************)
C27_SuccessHoldsSlot ==
    \A s \in Sessions :
        Succeeded(call[s]) =>
            /\ posts[call[s].record_id].exists
            /\ posts[call[s].record_id].status = "Approved"
            /\ posts[call[s].record_id].scheduled_time
                  = call[s].result.scheduled_time

(***************************************************************************)
(* C22. Concrete scenario: with windows (8,10), (12,14), (17,19), spacing  *)
(* 30 minutes, now = day 0 07:00, no post holding a scheduled_time and the *)
(* first draws hour 8 and minute 15, schedule_post accepts the first       *)
(* candidate (day 0, window 0); the post ends with scheduled_time day 0    *)
(* 08:15 and status Approved, and no further window is visited.            *)
(***************************************************************************)
ScenarioNow == 7 * 60
ScenarioSlot == 8 * 60 + 15
NoStoredTimes(tbl) == \A id \in StoredRows(tbl) : ~Truthy(tbl[id].scheduled_time)

C22_ConcreteScenario ==
    [][\A s \in Sessions :
          /\ (/\ call[s].pc = "search"
              /\ call[s].now = ScenarioNow
              /\ call[s].draws = 0
              /\ NoStoredTimes(posts)
              /\ call'[s].candidate_time = {ScenarioSlot})
                => /\ call'[s].pc = "after"
                   /\ call'[s].scheduled_datetime = {ScenarioSlot}
                   /\ call'[s].draws = 2
                   /\ PairIndex(call'[s]) = 0
          /\ (/\ call[s].pc = "after"
              /\ call[s].now = ScenarioNow
              /\ call[s].draws = 2
              /\ call[s].scheduled_datetime = {ScenarioSlot}
              /\ NoStoredTimes(posts)
              /\ call'[s].pc = "done"
              /\ ~WriteFailed(call'[s]))
                => /\ Succeeded(call'[s])
                   /\ call'[s].result.scheduled_time = Iso(ScenarioSlot, "naive")
                   /\ call'[s].draws = 2
                   /\ posts'[call[s].record_id].status = "Approved"
                   /\ posts'[call[s].record_id].scheduled_time
                         = Iso(ScenarioSlot, "naive")]_vars

\* the scenario ran: 07:00, an empty calendar, one pair of draws, 08:15 stored
C22_Witness ==
    \E s \in Sessions :
        /\ Succeeded(call[s])
        /\ call[s].now = ScenarioNow
        /\ call[s].draws = 2
        /\ ~Truthy(call[s].before.scheduled_time)
        /\ call[s].before.status = "Pending Review"
        /\ NoStoredTimes([posts EXCEPT ![call[s].record_id] = call[s].before])
        /\ posts[call[s].record_id].status = "Approved"
        /\ posts[call[s].record_id].scheduled_time = Iso(ScenarioSlot, "naive")

(***************************************************************************)
(* Two runs side by side.  Session s1 is a client that has already served  *)
(* schedule_post calls; session s2 is a client that has served none and    *)
(* works on a second table (shadow).  At TwinBegin the second table is     *)
(* given the contents of the first, and from then on both clients make the *)
(* same call, read the same clock, are handed the same draws and see the   *)
(* same outcome of every query.                                            *)
(***************************************************************************)
TwinStarted == call["s2"].pc # "idle"

TwinBegin(id, readOk) ==
    /\ call["s1"].pc \in {"idle", "done"}
    /\ call["s2"].pc = "idle"
    /\ shadow' = posts
    /\ call' = [s \in Sessions |->
                  StartCall(call[s], IF s = "s1" THEN posts ELSE shadow',
                            clock, id, readOk)]
    /\ ui' = NoUi
    /\ UNCHANGED <<posts, clock, cache, time, reply, hook, poll>>

TwinTryWindow ==
    /\ \A s \in Sessions : call[s].pc = "search"
    /\ \E random_hour \in HourDraws(call["s1"].w), random_minute \in MinuteDraws :
          call' = [s \in Sessions |-> LoopBody(call[s], random_hour, random_minute)]
    /\ UNCHANGED <<posts, clock, ui>>
    /\ UNCHANGED otherVars

TwinNoSlot ==
    /\ \A s \in Sessions : call[s].pc = "after" /\ call[s].scheduled_datetime = {}
    /\ call' = [s \in Sessions |-> NoSlotReturn(call[s])]
    /\ UNCHANGED <<posts, clock, ui>>
    /\ UNCHANGED otherVars

TwinCommit(writeOk) ==
    /\ \A s \in Sessions : call[s].pc = "after" /\ call[s].scheduled_datetime # {}
    /\ posts' = CommitTable(posts, call["s1"], writeOk)
    /\ shadow' = CommitTable(shadow, call["s2"], writeOk)
    /\ call' = [s \in Sessions |-> CommitReturn(call[s], writeOk)]
    /\ UNCHANGED <<clock, ui, cache, time, reply, hook, poll>>

TwinNext ==
    \/ /\ ~TwinStarted
       /\ \/ \E readOk \in BOOLEAN : BeginSchedule("s1", 1, readOk)
          \/ TryWindow("s1")
          \/ NoSlot("s1")
          \/ \E writeOk \in BOOLEAN : Commit("s1", writeOk)
          \/ Tick
    \/ \E readOk \in BOOLEAN : TwinBegin(1, readOk)
    \/ TwinTryWindow
    \/ TwinNoSlot
    \/ \E writeOk \in BOOLEAN : TwinCommit(writeOk)

TwinSpec == InitSched /\ [][TwinNext]_vars

HttpStatuses == {200, 201, 202, 204, 302, 404, 500}
\* response.text: empty, a JSON document, or text that is not JSON
Bodies == {"empty", "json", "text"}
Outcomes ==
    [kind : {"response"}, status_code : HttpStatuses, text : Bodies]
    \cup [kind : {"timeout", "request_exception", "exception"},
          status_code : {0}, text : {"empty"}]
Endpoints == {"generate-image", "schedule", "revise", "reject"}

\* Response.ok: raise_for_status would not raise
ResponseOk(status_code) == status_code < 400

\* lines 55-75: the three handlers, which all return a dictionary
Handler(error) ==
    [raised |-> FALSE, success |-> FALSE, status_code |-> {}, data |-> "",
     error |-> {error}]

\* variant: success is response.ok
WebhookResultOk(outcome) ==
    IF outcome.kind = "response" /\ outcome.text # "text"
    THEN [raised |-> FALSE,
          success |-> ResponseOk(outcome.status_code),
          status_code |-> {outcome.status_code},
          data |-> outcome.text,
          error |-> IF ResponseOk(outcome.status_code) THEN {} ELSE {outcome.text}]
    ELSE Handler("Request failed")

\* lines 39-75: the dictionary built from the response, or by the handler of
\* what was raised; response.json() raises on a body that is not JSON, and
\* that is raised inside the try block
WebhookResult(outcome) ==
    CASE outcome.kind = "response" /\ outcome.text # "text" ->
            [raised |-> FALSE,
             success |-> outcome.status_code \in {200, 201, 202},
             status_code |-> {outcome.status_code},
             data |-> outcome.text,
             error |-> IF ResponseOk(outcome.status_code)
                       THEN {} ELSE {outcome.text}]
      [] outcome.kind = "response" /\ outcome.text = "text" ->
            Handler("Request failed: Expecting value")
      [] outcome.kind = "timeout" -> Handler("Request timeout after 30s")
      [] outcome.kind = "request_exception" -> Handler("Request failed: ...")
      [] OTHER -> Handler("Unexpected error: ...")

\* lines 25-75, and the wrappers of lines 77-176, which add a message to a
\* successful result
trigger_webhook(endpoint, record_id, message) ==
    /\ \E outcome \in Outcomes :
          LET response == WebhookResult(outcome)
          IN  hook' = [endpoint |-> endpoint, record_id |-> record_id,
                       outcome |-> outcome, returned |-> ~response.raised,
                       raised |-> response.raised,
                       success |-> response.success,
                       status_code |-> response.status_code,
                       data |-> response.data, error |-> response.error,
                       message |-> IF response.success THEN message ELSE ""]
    /\ UNCHANGED <<posts, clock, call, ui, shadow, cache, time, reply, poll>>

trigger_image_generation(record_id) ==
    trigger_webhook("generate-image", record_id,
                    "Image generation triggered successfully")
trigger_scheduling(record_id) ==
    trigger_webhook("schedule", record_id, "Post scheduled successfully")
trigger_revision(record_id) ==
    trigger_webhook("revise", record_id, "Revision processed successfully")
trigger_rejection(record_id) ==
    trigger_webhook("reject", record_id, "Post rejected successfully")

HookNext ==
    \E record_id \in PostIds :
        \/ trigger_image_generation(record_id)
        \/ trigger_scheduling(record_id)
        \/ trigger_revision(record_id)
        \/ trigger_rejection(record_id)

HookSpec == InitLife /\ [][HookNext]_vars

(***************************************************************************)
(* C25. Webhook calls never raise: _trigger_webhook returns a result for   *)
(* every outcome (a response of any status, a timeout, a connection error, *)
(* any other exception); success is true only if a response with status    *)
(* 200, 201 or 202 was received; on a timeout or a request failure success *)
(* is false, status_code is absent and an error message is set.            *)
(***************************************************************************)
C25_WebhookNeverRaises ==
    hook.endpoint # "none" =>
        /\ hook.returned /\ ~hook.raised
        /\ hook.success =>
              /\ hook.outcome.kind = "response"
              /\ hook.outcome.status_code \in {200, 201, 202}
              /\ hook.status_code = {hook.outcome.status_code}
        /\ hook.outcome.kind \in {"timeout", "request_exception"} =>
              /\ ~hook.success
              /\ hook.status_code = {}
              /\ hook.error # {} /\ "" \notin hook.error

\* a call that timed out came back with its error dictionary
C25_Witness ==
    /\ hook.returned
    /\ hook.outcome.kind = "timeout"
    /\ ~hook.success
    /\ hook.error = {"Request timeout after 30s"}

(***************************************************************************)
(* ReplicateClient.generate_image: create a prediction, then poll it.      *)
(***************************************************************************)
\* what the POST that creates the prediction can do
CreateOutcomes == {"created", "bad_status", "no_id", "request_exception"}
\* what one GET of the prediction can report: a status other than 200, a
\* raised RequestException, or 200 with the status of the prediction
\* ("succeeded" with or without an output, "failed", anything else)
PollOutcomes ==
    {"http_error", "request_exception", "succeeded", "succeeded_no_output",
     "failed", "processing"}
None == "None"
OutputUrl == "outputs[0]"

\* lines 53-82 and 117-120
StartGeneration(created) ==
    /\ poll.pc \in {"idle", "returned", "raised"}
    /\ poll' =
          IF created = "created"
          THEN [IdlePoll EXCEPT !.pc = "polling"]
          ELSE [IdlePoll EXCEPT
                  !.pc = "raised",
                  !.error =
                      CASE created = "bad_status" ->
                              "Image generation error: Failed to create prediction"
                        [] created = "no_id" ->
                              "Image generation error: No prediction ID returned"
                        [] OTHER -> "Replicate API request error"]
    /\ UNCHANGED <<posts, clock, call, ui, shadow, cache, time, reply, hook>>

\* variant: while poll_count <= max_polls
LoopContinuesInclusive(p) == p.poll_count <= max_polls

\* line 88: while poll_count < max_polls
LoopContinues(p) == p.poll_count < max_polls

\* lines 89-113: one pass of the polling loop
PollOnce(response) ==
    /\ poll.pc = "polling"
    /\ LoopContinues(poll)
    /\ LET got == [poll EXCEPT !.gets = poll.gets + 1, !.last = response]
       IN  poll' =
             CASE response = "http_error" ->
                     [got EXCEPT !.pc = "raised",
                                 !.error = "Image generation error: Failed to get prediction"]
               [] response = "request_exception" ->
                     [got EXCEPT !.pc = "raised",
                                 !.error = "Replicate API request error"]
               [] response = "succeeded" ->
                     [got EXCEPT !.pc = "returned", !.returned = {OutputUrl}]
               [] response = "succeeded_no_output" ->
                     [got EXCEPT !.pc = "returned", !.returned = {None}]
               [] response = "failed" ->
                     [got EXCEPT !.pc = "raised",
                                 !.error = "Image generation error: Image generation failed"]
               [] OTHER ->
                     [got EXCEPT !.poll_count = poll.poll_count + 1]
    /\ UNCHANGED <<posts, clock, call, ui, shadow, cache, time, reply, hook>>

TimeoutError == "Image generation error: Image generation timed out after 5 minutes"

\* line 115: the loop ended without a return
PollTimeout ==
    /\ poll.pc = "polling"
    /\ ~LoopContinues(poll)
    /\ poll' = [poll EXCEPT !.pc = "raised", !.error = TimeoutError]
    /\ UNCHANGED <<posts, clock, call, ui, shadow, cache, time, reply, hook>>

PollNext ==
    \/ \E created \in CreateOutcomes : StartGeneration(created)
    \/ \E response \in PollOutcomes : PollOnce(response)
    \/ PollTimeout

\* every request carries timeout=30 and time.sleep(5) returns, so a pass of
\* the loop that can be made is made
PollSpec ==
    /\ InitLife
    /\ [][PollNext]_vars
    /\ WF_vars(\E response \in PollOutcomes : PollOnce(response))
    /\ WF_vars(PollTimeout)

TimeValues == {0, 29, 30, 60}
\* the post the caching client creates, updates and deletes
CachedIds == {1}

\* _to_airtable_format: id at the top level, the columns under "fields"
\* with their Airtable names
to_airtable_format(id, row) ==
    [id |-> id,
     fields |-> [Title |-> row.title, Status |-> row.status,
                 ScheduledTime |-> row.scheduled_time,
                 ImageURL |-> row.image_url]]

\* select("*") with the optional eq("status", status_filter), formatted
FetchAll(tbl, status_filter) ==
    {to_airtable_format(id, tbl[id]) :
        id \in {i \in StoredRows(tbl) :
                   status_filter = "None" \/ tbl[i].status = status_filter}}

MarkStale(c) ==
    [k \in DOMAIN c |-> {[e EXCEPT !.stale = TRUE] : e \in c[k]}]

\* variant: only the entry of the unfiltered list is dropped
clear_cache_unfiltered(c) == [c EXCEPT !["None"] = {}]

\* self._cache.clear()
clear_cache(c) == [k \in DOMAIN c |-> {}]

\* lines 87-131 of utils/supabase_client.py
CachingGetAllPosts(status_filter, fetchOk) ==
    /\ LET served == {e \in cache[status_filter] :
                         time - e.timestamp < cache_ttl}
           called == [NoReply EXCEPT !.op = "get_all_posts", !.ok = TRUE,
                                     !.status_filter = status_filter]
       IN  IF served # {}
           THEN LET e == CHOOSE x \in served : TRUE
                IN  /\ reply' = [called EXCEPT !.hit = TRUE,
                                               !.age = time - e.timestamp,
                                               !.stale = e.stale,
                                               !.data = e.data]
                    /\ cache' = cache
           ELSE IF fetchOk
                THEN LET formatted_records == FetchAll(posts, status_filter)
                     IN  /\ cache' = [cache EXCEPT ![status_filter] =
                               {[data |-> formatted_records,
                                 timestamp |-> time, stale |-> FALSE]}]
                         /\ reply' = [called EXCEPT !.fetch = "ok",
                                                    !.cached = TRUE,
                                                    !.data = formatted_records]
                ELSE /\ cache' = cache
                     /\ reply' = [called EXCEPT !.fetch = "failed"]
    /\ UNCHANGED <<posts, clock, call, ui, shadow, time, hook, poll>>

\* what a write method leaves behind: the cache is cleared after the
\* request went through, and left alone when it raised
Written(op, tbl, writeOk, raises) ==
    /\ posts' = IF writeOk THEN tbl ELSE posts
    /\ cache' = IF writeOk THEN clear_cache(MarkStale(cache)) ELSE cache
    /\ reply' = [NoReply EXCEPT !.op = op, !.ok = writeOk,
                                !.raised = ~writeOk /\ raises]
    /\ UNCHANGED <<clock, call, ui, shadow, time, hook, poll>>

\* lines 156-197: update_post, here through update_status
CachingUpdatePost(record_id, new_status, writeOk) ==
    Written("update_post",
            TableUpdate(posts, record_id, [status |-> new_status]),
            writeOk, TRUE)

\* lines 247-271
CachingCreatePost(record_id, writeOk) ==
    /\ ~posts[record_id].exists
    /\ Written("create_post",
               [posts EXCEPT ![record_id] = Row("Draft", Null)],
               writeOk, TRUE)

\* lines 273-292: returns False instead of raising
CachingDeletePost(record_id, writeOk) ==
    Written("delete_post", TableDelete(posts, record_id), writeOk, FALSE)

\* the Streamlit client, which shares the table and not the cache,
\* approves the post
OtherClientWrite(record_id) ==
    /\ posts[record_id].exists
    /\ posts[record_id].status # "Approved"
    /\ posts' = TableUpdate(posts, record_id, [status |-> "Approved"])
    /\ UNCHANGED <<clock, call, ui>>
    /\ UNCHANGED otherVars

CacheTick ==
    /\ \E t \in TimeValues : t > time /\ time' = t
    /\ UNCHANGED <<posts, clock, call, ui, shadow, cache, reply, hook, poll>>

InitCache ==
    /\ posts = [i \in AllIds |->
                  IF i \in CachedIds THEN Row("Pending Review", Null) ELSE NoRow]
    /\ clock = 7 * 60
    /\ call = [s \in Sessions |-> IdleCall]
    /\ ui = NoUi
    /\ InitOther

CacheNext ==
    \/ \E status_filter \in StatusFilters, fetchOk \in BOOLEAN :
          CachingGetAllPosts(status_filter, fetchOk)
    \/ \E record_id \in CachedIds, writeOk \in BOOLEAN :
          \/ \E new_status \in {"Pending Review", "Rejected"} :
                CachingUpdatePost(record_id, new_status, writeOk)
          \/ CachingCreatePost(record_id, writeOk)
          \/ CachingDeletePost(record_id, writeOk)
    \/ \E record_id \in CachedIds : OtherClientWrite(record_id)
    \/ CacheTick

CacheSpec == InitCache /\ [][CacheNext]_vars

(***************************************************************************)
(* C24. Cache invalidation (read-your-writes): after update_post,          *)
(* create_post or delete_post of a caching client completes successfully,  *)
(* every cached get_all_posts entry, for every status_filter key, is       *)
(* discarded, so the next get_all_posts through the same client fetches    *)
(* from the store and never returns data cached before the write; a cached *)
(* entry is served only while it is younger than the 30-second TTL; a      *)
(* failed fetch returns an empty list and is not cached.                   *)
(***************************************************************************)
WriteOps == {"update_post", "create_post", "delete_post"}

C24_CacheInvalidation ==
    /\ (reply.op \in WriteOps /\ reply.ok) => cache = EmptyCache
    /\ \A k \in StatusFilters : \A e \in cache[k] : ~e.stale
    /\ (reply.op = "get_all_posts" /\ reply.hit) =>
          /\ reply.age < cache_ttl
          /\ ~reply.stale
          /\ reply.fetch = "none"
    /\ (reply.op = "get_all_posts" /\ reply.fetch = "failed") =>
          /\ reply.data = {}
          /\ ~reply.cached
          /\ ~reply.hit

\* at second 29 a post updated through this client is in the store and a
\* get_all_posts of the same client fetched it, while the other key still
\* holds a list cached within the TTL
C24_Witness ==
    /\ reply.op = "get_all_posts"
    /\ reply.fetch = "ok"
    /\ reply.status_filter = "None"
    /\ time = 29
    /\ posts[1].exists /\ posts[1].status = "Rejected"
    /\ reply.data = FetchAll(posts, "None")
    /\ \E e \in cache["Pending Review"] : e.timestamp = 29 /\ e.data = {}

====
